---- MODULE Spec2Model ----
(***************************************************************************)
(* Day 5 of rutgerclaes/2023-advent-of-code-rs: the interval-rewrite       *)
(* translation tables (src/day_05/src/main.rs); Day 8, the walks through   *)
(* the network (src/day_08/src/main.rs), is the last section.              *)
(*                                                                         *)
(* A TranslationRule is the record [start, end, delta]; a TranslationTable *)
(* is the sequence of its rules (the im::Vector inside the tuple struct);  *)
(* a Translation is a tagged record, Table(table) or Chain(a, b).          *)
(*                                                                         *)
(* A panic of the program (panic!, unwrap of None) is the value of the     *)
(* field "panicked" of a result; it is propagated by every caller, as      *)
(* unwinding does.                                                         *)
(*                                                                         *)
(* Numbers: start, end and inputs are u64, delta is i64.  Every rule of    *)
(* the model has start + delta >= 0 (a parsed rule has the u64 destination *)
(* start dest = start + delta), and all values stay far below 2^63, so the *)
(* casts "as i64" / "as u64" of the source never wrap on these inputs and  *)
(* are modelled by the integer itself.                                     *)
(*                                                                         *)
(* Only({e : x \in {v}}) reads "let x = v in e": v is evaluated once and   *)
(* x is bound to its value, as a Rust let binding is.                      *)
(***************************************************************************)
EXTENDS Integers, Sequences, FiniteSets, TLC

\* ------------------------------------------------------------------ bounds
\* Source positions are 0..MaxPos.
MaxPos == 2
\* Deltas of the input rules are -MaxDelta..MaxDelta.
MaxDelta == 1
\* Rules per input table (rule lists given to TranslationTable::new).
MaxRules == 2
\* Mutating operations (clear, insert, fold) applied in a row to one table.
MaxOps == 2
\* Stages chained with and_then (parse_input chains seven).
MaxChain == 3
\* Rules per stage table of a chain.
MaxStageRules == 1
\* (start, length) pairs in the seed list.
MaxSeedPairs == 2
\* Characters of a rule line.
MaxLineLen == 7
\* Rule lines in a block of the input.
MaxBlockLines == 1
\* The numbers looked for in a rule line are 0..MaxNumber.
MaxNumber == 111

Positions == 0..MaxPos
Deltas == (0 - MaxDelta)..MaxDelta
\* Inputs of translate: the positions, and some values past the last rule.
Inputs == 0..(MaxPos + 2)

\* ------------------------------------------------------------------ rules
Rule(s, e, d) == [start |-> s, end |-> e, delta |-> d]

Only(S) == CHOOSE v \in S : TRUE

Min(S) == CHOOSE m \in S : \A n \in S : m <= n
max(a, b) == IF a >= b THEN a ELSE b
min(a, b) == IF a <= b THEN a ELSE b

None == [some |-> FALSE]
Some(v) == [some |-> TRUE, value |-> v]

\* A plausible slip of TranslationRule::new: >= for > in the test.
TranslationRule_new_ge(start, end, delta) ==
    IF start >= end
    THEN [panicked |-> TRUE]
    ELSE [panicked |-> FALSE, rule |-> Rule(start, end, delta)]

\* TranslationRule::new: panics when start > end.
TranslationRule_new(start, end, delta) ==
    IF start > end
    THEN [panicked |-> TRUE]
    ELSE [panicked |-> FALSE, rule |-> Rule(start, end, delta)]

\* A plausible slip of TranslationRule::translate: the upper end exclusive.
rule_translate_exclusive(rule, input) ==
    IF input >= rule.start /\ input < rule.end
    THEN Some(input + rule.delta)
    ELSE None

\* TranslationRule::translate
rule_translate(rule, input) ==
    IF input >= rule.start /\ input <= rule.end
    THEN Some(input + rule.delta)
    ELSE None

source_range(rule) == <<rule.start, rule.end>>

destination_range(rule) == <<rule.start + rule.delta, rule.end + rule.delta>>

length(rule) == rule.end - rule.start + 1

\* A plausible slip of overlaps_with: ranges that only touch count as overlap.
overlaps_with_touching(a, b) ==
    \/ (a[1] >= b[1] /\ a[1] <= b[2] + 1)
    \/ (b[1] >= a[1] /\ b[1] <= a[2] + 1)

\* A plausible slip of overlaps_with: the second half of the test is missing.
overlaps_with_one_sided(a, b) == a[1] >= b[1] /\ a[1] <= b[2]

\* TranslationRule::overlaps_with
overlaps_with(a, b) ==
    \/ (a[1] >= b[1] /\ a[1] <= b[2])
    \/ (b[1] >= a[1] /\ b[1] <= a[2])

\* TranslationRule::split: panics when length == 0 or start + length >= end.
split(rule, len) ==
    IF len = 0 \/ rule.start + len >= rule.end
    THEN [panicked |-> TRUE]
    ELSE [panicked |-> FALSE,
          lower |-> Rule(rule.start, rule.start + len - 1, rule.delta),
          upper |-> Rule(rule.start + len, rule.end, rule.delta)]

\* ------------------------------------------------------------------ tables
\* Itertools::sorted / sorted_by_key: a stable sort of s, keys[i] the key of
\* s[i].
SortedBy(s, keys) ==
    Only({LET n == Len(items)
              rank(i) == Cardinality({j \in 1..n :
                             \/ ks[j] < ks[i]
                             \/ (ks[j] = ks[i] /\ j < i)}) + 1
          IN  [p \in 1..n |-> items[CHOOSE i \in 1..n : rank(i) = p]]
          : items \in {s}, ks \in {keys}})

\* Ord for TranslationRule compares start alone.
rule_key(rule) == rule.start

sorted(s) == SortedBy(s, [i \in 1..Len(s) |-> rule_key(s[i])])

\* TranslationTable::new
TranslationTable_new(rules) == sorted(rules)

\* TranslationTable::translate: find_map takes the first rule that translates.
table_translate(table, input) ==
    Only({LET hits == {i \in 1..Len(rules) : rule_translate(rules[i], x).some}
          IN  IF hits = {}
              THEN x
              ELSE rule_translate(rules[Min(hits)], x).value
          : rules \in {table}, x \in {input}})

\* One call of the closure of TranslationTable::map's fold_while.
map_step(new_rules, leftover, rule) ==
    LET dr == destination_range(leftover)
        leftover_dst_start == dr[1]
        leftover_dst_end == dr[2]
        dst_start == max(leftover_dst_start, rule.start)
        dst_end == min(leftover_dst_end, rule.end)
        in_start == dst_start - leftover.delta
        in_end == dst_end - leftover.delta
        mapped == TranslationRule_new(in_start, in_end, leftover.delta + rule.delta)
        sp == split(leftover, dst_start - leftover_dst_start)
        with_lower == IF dst_start > leftover_dst_start
                      THEN Append(new_rules, sp.lower)
                      ELSE new_rules
    IN  IF rule.start > leftover_dst_end
        THEN [kind |-> "Done", rules |-> Append(new_rules, leftover), leftover |-> None]
        ELSE IF rule.end < leftover_dst_start
        THEN [kind |-> "Continue", rules |-> new_rules, leftover |-> Some(leftover)]
        ELSE IF mapped.panicked
        THEN [kind |-> "Panic"]
        ELSE IF dst_start > leftover_dst_start /\ sp.panicked
        THEN [kind |-> "Panic"]
        ELSE IF dst_end < leftover_dst_end
        THEN [kind |-> "Continue",
              rules |-> Append(with_lower, mapped.rule),
              leftover |-> Some(Rule(in_end + 1, leftover.end, leftover.delta))]
        ELSE [kind |-> "Done", rules |-> Append(with_lower, mapped.rule), leftover |-> None]

\* The fold_while of TranslationTable::map over the rules i..Len(table).
RECURSIVE map_walk(_, _, _, _)
map_walk(table, i, new_rules, leftover) ==
    IF i > Len(table)
    THEN [kind |-> "Continue", rules |-> new_rules, leftover |-> Some(leftover)]
    ELSE Only({IF st.kind = "Continue"
               THEN map_walk(table, i + 1, st.rules, st.leftover.value)
               ELSE st
               : st \in {map_step(new_rules, leftover, table[i])}})

\* TranslationTable::map
map(table, rule) ==
    Only({IF result.kind = "Panic"
          THEN [panicked |-> TRUE]
          ELSE IF result.kind = "Continue" /\ result.leftover.some
          THEN [panicked |-> FALSE,
                rules |-> sorted(Append(result.rules, result.leftover.value))]
          ELSE [panicked |-> FALSE, rules |-> sorted(result.rules)]
          : result \in {map_walk(table, 1, <<>>, rule)}})

\* A plausible slip of clear: the lower fragment keeps the first cleared value.
clear_rule_keeps_lo(rule, input_range) ==
    IF rule.start >= input_range[1] /\ rule.end <= input_range[2]
    THEN <<>>
    ELSE IF ~overlaps_with(input_range, source_range(rule))
    THEN <<rule>>
    ELSE (IF input_range[1] > rule.start /\ input_range[1] < rule.end
          THEN <<[rule EXCEPT !.end = input_range[1]]>>
          ELSE <<>>)
         \o
         (IF input_range[2] > rule.start /\ input_range[2] < rule.end
          THEN <<[rule EXCEPT !.start = input_range[2] + 1]>>
          ELSE <<>>)

\* A plausible slip of clear: || for && in the test of a rule inside the range.
clear_rule_or(rule, input_range) ==
    IF rule.start >= input_range[1] \/ rule.end <= input_range[2]
    THEN <<>>
    ELSE IF ~overlaps_with(input_range, source_range(rule))
    THEN <<rule>>
    ELSE (IF input_range[1] > rule.start /\ input_range[1] < rule.end
          THEN <<[rule EXCEPT !.end = input_range[1] - 1]>>
          ELSE <<>>)
         \o
         (IF input_range[2] > rule.start /\ input_range[2] < rule.end
          THEN <<[rule EXCEPT !.start = input_range[2] + 1]>>
          ELSE <<>>)

\* The closure of TranslationTable::clear's flat_map: what is left of one rule.
clear_rule(rule, input_range) ==
    IF rule.start >= input_range[1] /\ rule.end <= input_range[2]
    THEN <<>>
    ELSE IF ~overlaps_with(input_range, source_range(rule))
    THEN <<rule>>
    ELSE (IF input_range[1] > rule.start /\ input_range[1] < rule.end
          THEN <<[rule EXCEPT !.end = input_range[1] - 1]>>
          ELSE <<>>)
         \o
         (IF input_range[2] > rule.start /\ input_range[2] < rule.end
          THEN <<[rule EXCEPT !.start = input_range[2] + 1]>>
          ELSE <<>>)

RECURSIVE flat_clear(_, _)
flat_clear(rules, input_range) ==
    IF rules = <<>>
    THEN <<>>
    ELSE clear_rule(Head(rules), input_range) \o flat_clear(Tail(rules), input_range)

\* TranslationTable::clear
clear(table, input_range) ==
    Only({TranslationTable_new(flat_clear(rules, input_range)) : rules \in {table}})

\* A plausible slip of insert: push_back instead of insert_ord.
insert_ord_push_back(table, rule) == Append(table, rule)

\* im::Vector::insert_ord: the rule goes to its place in a sorted vector.
insert_ord(table, rule) ==
    Only({SubSeq(table, 1, before) \o <<rule>> \o SubSeq(table, before + 1, Len(table))
          : before \in {Cardinality({i \in 1..Len(table) : table[i].start < rule.start})}})

\* A plausible slip of insert: the source range of the rule is not cleared.
insert_without_clear(table, rule) == insert_ord(table, rule)

\* TranslationTable::insert
insert(table, rule) ==
    Only({insert_ord(result, new_rule)
          : result \in {clear(table, source_range(rule))}, new_rule \in {rule}})

RECURSIVE insert_all(_, _)
insert_all(result, new_rules) ==
    IF new_rules = <<>>
    THEN result
    ELSE insert_all(insert(result, Head(new_rules)), Tail(new_rules))

\* The rest of TranslationTable::fold, from the rule i of self on.
RECURSIVE fold_from(_, _, _, _)
fold_from(rules, i, other, result) ==
    IF i > Len(rules)
    THEN [panicked |-> FALSE, table |-> result]
    ELSE Only({IF m.panicked
               THEN [panicked |-> TRUE]
               ELSE Only({fold_from(rules, i + 1, other, next)
                          : next \in {insert_all(result, m.rules)}})
               : m \in {map(other, rules[i])}})

\* TranslationTable::fold
fold(self, other) ==
    Only({fold_from(a, 1, b, b) : a \in {self}, b \in {other}})

\* ------------------------------------------------------------------ chains
Table(table) == [tag |-> "Table", table |-> table]
Chain(a, b) == [tag |-> "Chain", a |-> a, b |-> b]

\* Translation::translate
RECURSIVE translation_translate(_, _)

\* A plausible slip of Translation::translate: the second stage applied first.
translation_translate_swapped(self, input) ==
    IF self.tag = "Table"
    THEN table_translate(self.table, input)
    ELSE translation_translate(self.a, translation_translate(self.b, input))

translation_translate(self, input) ==
    IF self.tag = "Table"
    THEN table_translate(self.table, input)
    ELSE translation_translate(self.b, translation_translate(self.a, input))

\* Translation::and_then
and_then(self, other) == Chain(self, other)

\* Translation::collapse_table
RECURSIVE collapse_table(_)
collapse_table(self) ==
    IF self.tag = "Table"
    THEN [panicked |-> FALSE, table |-> self.table]
    ELSE Only({IF a.panicked \/ b.panicked
               THEN [panicked |-> TRUE]
               ELSE fold(a.table, b.table)
               : a \in {collapse_table(self.a)}, b \in {collapse_table(self.b)}})

\* ------------------------------------------------------------------ part two
\* part_two, lines 42-47: tuples() pairs the seeds, a last odd one is dropped.
seed_range_key(r) == r[1]

seed_ranges_of(seeds) ==
    LET ranges == [i \in 1..(Len(seeds) \div 2) |->
                      <<seeds[2 * i - 1], seeds[2 * i - 1] + seeds[2 * i]>>]
    IN  SortedBy(ranges, [i \in 1..Len(ranges) |-> seed_range_key(ranges[i])])

destination_key(rule) == destination_range(rule)[1]

\* The fold_while of part_two over the rules i..Len(rules), sorted by
\* destination start.
RECURSIVE lowest_scan(_, _, _, _)
lowest_scan(rules, i, seed_ranges, lowest) ==
    IF i > Len(rules)
    THEN [kind |-> "Continue", lowest |-> lowest]
    ELSE LET rule == rules[i]
             dst_start == destination_range(rule)[1]
             rule_range == source_range(rule)
             found == {k \in 1..Len(seed_ranges) :
                          overlaps_with(seed_ranges[k], rule_range)}
             seed_range == seed_ranges[Min(found)]
             min_seed == max(rule_range[1], seed_range[1])
             min_location == rule_translate(rule, min_seed)
         IN  IF (~lowest.some) \/ dst_start < lowest.value
             THEN IF found # {}
                  THEN IF min_location.some
                       THEN lowest_scan(rules, i + 1, seed_ranges, Some(min_location.value))
                       ELSE [kind |-> "Panic"]
                  ELSE lowest_scan(rules, i + 1, seed_ranges, lowest)
             ELSE [kind |-> "Done", lowest |-> lowest]

Ok(v) == [panicked |-> FALSE, tag |-> "Ok", value |-> v]
Err(e) == [panicked |-> FALSE, tag |-> "Err", error |-> e]
Panicked == [panicked |-> TRUE]

\* TypedTranslation::transform
transform(translation, input) == translation_translate(translation, input)

\* A plausible slip of part_one: max() for min().
part_one_max(seeds, translation) ==
    IF seeds = <<>>
    THEN Err("NoSolutionFound")
    ELSE Ok(CHOOSE m \in {transform(translation, seeds[i]) : i \in 1..Len(seeds)} :
               \A i \in 1..Len(seeds) : m >= transform(translation, seeds[i]))

\* part_one: min() of an empty iterator is None, which ok_or turns into the
\* error.
part_one(seeds, translation) ==
    IF seeds = <<>>
    THEN Err("NoSolutionFound")
    ELSE Ok(Min({transform(translation, seeds[i]) : i \in 1..Len(seeds)}))

\* A plausible slip of the match of part_two: no arm for Continue(None).
lowest_result_no_error(lowest) ==
    IF lowest.kind = "Panic"
    THEN Panicked
    ELSE IF lowest.lowest.some
    THEN Ok(lowest.lowest.value)
    ELSE Panicked

\* The match of part_two on the result of the fold_while.
lowest_result(lowest) ==
    IF lowest.kind = "Panic"
    THEN Panicked
    ELSE IF lowest.lowest.some
    THEN Ok(lowest.lowest.value)
    ELSE IF lowest.kind = "Continue"
    THEN Err("NoSolutionFound")
    ELSE Panicked

\* part_two
part_two(seeds, translation) ==
    Only({IF collapsed.panicked
          THEN Panicked
          ELSE Only({
                 Only({lowest_result(lowest)
                       : lowest \in {lowest_scan(rules, 1, seed_ranges, None)}})
                 : rules \in {SortedBy(collapsed.table,
                                       [i \in 1..Len(collapsed.table) |->
                                           destination_key(collapsed.table[i])])}})
          : seed_ranges \in {seed_ranges_of(seeds)},
            collapsed \in {collapse_table(translation)}})

\* ------------------------------------------------------------------ parsing
\* A line is the sequence of its characters, each a string of length one.

\* str::split_ascii_whitespace: the maximal runs of characters other than
\* white space, in order; never an empty one.
split_ascii_whitespace(s) ==
    Only({LET starts == {i \in 1..Len(str) :
                            str[i] # " " /\ (i = 1 \/ str[i - 1] = " ")}
              nth(k) == CHOOSE i \in starts : Cardinality({j \in starts : j < i}) = k - 1
              stop(i) == Min({j \in i..Len(str) : j = Len(str) \/ str[j + 1] = " "})
          IN  [k \in 1..Cardinality(starts) |-> SubSeq(str, nth(k), stop(nth(k)))]
          : str \in {s}})

\* char::to_digit(10)
to_digit ==
    ("0" :> 0) @@ ("1" :> 1) @@ ("2" :> 2) @@ ("3" :> 3) @@ ("4" :> 4) @@
    ("5" :> 5) @@ ("6" :> 6) @@ ("7" :> 7) @@ ("8" :> 8) @@ ("9" :> 9)

RECURSIVE parse_digits(_, _, _)
parse_digits(digits, i, acc) ==
    IF i > Len(digits)
    THEN acc
    ELSE parse_digits(digits, i + 1, acc * 10 + to_digit[digits[i]])

\* str::parse::<u64>: an optional "+", then decimal digits alone.  A token of
\* the model has at most MaxLineLen digits and is far below 2^64, so the
\* error PosOverflow does not occur.
parse_u64(token) ==
    Only({IF digits = <<>>
          THEN [ok |-> FALSE, error |-> IF src = <<>> THEN "Empty" ELSE "InvalidDigit"]
          ELSE IF \E i \in 1..Len(digits) : digits[i] \notin DOMAIN to_digit
          THEN [ok |-> FALSE, error |-> "InvalidDigit"]
          ELSE [ok |-> TRUE, value |-> parse_digits(digits, 1, 0)]
          : src \in {token},
            digits \in {IF token # <<>> /\ token[1] = "+" THEN Tail(token) ELSE token}})

\* Display for ParseIntError: a text of one piece, where a line is the
\* sequence of its characters.
parse_int_error_message(error) ==
    IF error = "Empty"
    THEN <<"cannot parse integer from empty string">>
    ELSE IF error = "InvalidDigit"
    THEN <<"invalid digit found in string">>
    ELSE <<"number too large to fit in target type">>

\* format!(text, arg): the text of the message and the value put into it.
format(text, arg) == [text |-> text, arg |-> arg]

InputParsingFailed(message) == [kind |-> "InputParsingFailed", message |-> message]

\* impl From<ParseIntError> for SolutionError
from_parse_int_error(error) ==
    InputParsingFailed(format("Parsing of an integer failed: {}",
                              parse_int_error_message(error)))

\* u64::MAX.  2^64 - 1 is beyond the integers of TLC: the largest of them
\* stands for it, and it is only compared with positions.
U64_MAX == 2147483647

\* start + length - 1 in u64: start + length = 0 makes the subtraction
\* overflow, which panics with overflow checks (debug profile) and wraps
\* without them (release profile).
rule_end(start, len, overflow_checks) ==
    IF start + len >= 1
    THEN [panicked |-> FALSE, value |-> start + len - 1]
    ELSE IF overflow_checks
    THEN [panicked |-> TRUE]
    ELSE [panicked |-> FALSE, value |-> U64_MAX]

\* impl FromStr for TranslationRule
from_str(s, overflow_checks) ==
    Only({IF Len(parsed) # 3
          THEN Err(InputParsingFailed(format("Could not parse rule: {}", s)))
          ELSE IF ~parsed[1].ok
          THEN Err(from_parse_int_error(parsed[1].error))
          ELSE IF ~parsed[2].ok
          THEN Err(from_parse_int_error(parsed[2].error))
          ELSE IF ~parsed[3].ok
          THEN Err(from_parse_int_error(parsed[3].error))
          ELSE Only({IF end.panicked
                     THEN Panicked
                     ELSE Ok(Rule(parsed[2].value, end.value,
                                  parsed[1].value - parsed[2].value))
                     : end \in {rule_end(parsed[2].value, parsed[3].value,
                                         overflow_checks)}})
          : parsed \in {Only({[k \in 1..Len(tokens) |-> parse_u64(tokens[k])]
                              : tokens \in {split_ascii_whitespace(s)}})}})

\* The rule lines of one block of parse_input, from the line i on: try_collect
\* stops at the first line that does not parse.
RECURSIVE parse_rules(_, _, _, _)
parse_rules(lines, i, rules, overflow_checks) ==
    IF i > Len(lines)
    THEN Ok(rules)
    ELSE Only({IF r.panicked \/ r.tag = "Err"
               THEN r
               ELSE Only({parse_rules(lines, i + 1, next, overflow_checks)
                          : next \in {Append(rules, r.value)}})
               : r \in {from_str(lines[i], overflow_checks)}})

\* The closure of parse_input's batching: Translation::new of the rules.
parse_table(lines, overflow_checks) ==
    Only({IF r.panicked \/ r.tag = "Err"
          THEN r
          ELSE Ok(Table(TranslationTable_new(r.value)))
          : r \in {parse_rules(lines, 1, <<>>, overflow_checks)}})

\* parse_input chains seven tables, seed-to-soil to humidity-to-location.
TableCount == 7

\* tables[1].and_then(tables[2])...and_then(tables[n])
RECURSIVE chain_of(_, _)
chain_of(tables, n) ==
    IF n = 1
    THEN tables[1]
    ELSE and_then(chain_of(tables, n - 1), tables[n])

\* parse_input, after the seeds: blocks[i] holds the rule lines of the block i.
parse_input(blocks, overflow_checks) ==
    Only({IF \E i \in 1..Len(tables) : tables[i].panicked
          THEN Panicked
          ELSE IF \E i \in 1..Len(tables) : tables[i].tag = "Err"
          THEN tables[Min({i \in 1..Len(tables) : tables[i].tag = "Err"})]
          ELSE IF Len(tables) # TableCount
          THEN Err(InputParsingFailed(format("Incorrect number of translation tables",
                                             <<>>)))
          ELSE Ok(chain_of([i \in 1..Len(tables) |-> tables[i].value], Len(tables)))
          : tables \in {[i \in 1..Len(blocks) |->
                            parse_table(blocks[i], overflow_checks)]}})

\* ------------------------------------------------------------------ inputs
\* The rules of the input: start <= end, and a destination start >= 0.
Rules ==
    {Rule(s, e, d) : <<s, e, d>> \in
        {t \in Positions \X Positions \X Deltas : t[1] <= t[2] /\ t[1] + t[3] >= 0}}

\* The rule lists given to TranslationTable::new: any order, overlaps included.
RuleLists == UNION {[1..n -> Rules] : n \in 0..MaxRules}

\* Two inclusive ranges share a value.
Intersects(a, b) == \E v \in a[1]..a[2] : v >= b[1] /\ v <= b[2]

\* The table invariant: sorted by start, source ranges pairwise disjoint.
TableInvariant(table) ==
    /\ \A i \in 1..Len(table) : table[i].start <= table[i].end
    /\ \A i, j \in 1..Len(table) :
          i < j => /\ table[i].start <= table[j].start
                   /\ ~Intersects(source_range(table[i]), source_range(table[j]))

\* The tables of the input that satisfy the invariant.
ValidTables == {t \in {TranslationTable_new(l) : l \in RuleLists} : TableInvariant(t)}

Ranges == {r \in Positions \X Positions : r[1] <= r[2]}

\* ------------------------------------------------------------------ state
VARIABLES
    table,        \* the TranslationTable the table operations work on
    nops,         \* how many clear / insert / fold calls it went through
    stages,       \* parse_input's tables, in the order they were chained
    translation,  \* the Translation built from them with and_then
    last,         \* the last call: its name, arguments and result
    panicked,     \* the program has panicked
    walk          \* Day 8: the fold over the cycled instructions, its position

vars == <<table, nops, stages, translation, last, panicked, walk>>

\* The table is built with TranslationTable::new from a list of rules.
Init ==
    /\ \E rules \in RuleLists :
          /\ table = TranslationTable_new(rules)
          /\ last = [op |-> "new", rules |-> rules, result |-> TranslationTable_new(rules)]
    /\ nops = 0
    /\ stages = <<>>
    /\ translation = Table(<<>>)
    /\ panicked = FALSE
    /\ walk = [pc |-> "idle"]

\* A query (translate, map) leaves the table as it is: the calls that can
\* follow it are those of the state before it, and the run ends with it.
Queried == last.op \in {"translate", "map"}

\* table = table.clear(input_range)
DoClear ==
    /\ ~panicked /\ ~Queried
    /\ nops < MaxOps
    /\ \E input_range \in Ranges :
          \E result \in {clear(table, input_range)} :
             /\ table' = result
             /\ last' = [op |-> "clear", self |-> table, input_range |-> input_range,
                         result |-> result]
    /\ nops' = nops + 1
    /\ UNCHANGED <<walk, stages, translation, panicked>>

\* table = table.insert(rule)
DoInsert ==
    /\ ~panicked /\ ~Queried
    /\ nops < MaxOps
    /\ \E rule \in Rules :
          \E result \in {insert(table, rule)} :
             /\ table' = result
             /\ last' = [op |-> "insert", self |-> table, rule |-> rule,
                         result |-> result]
    /\ nops' = nops + 1
    /\ UNCHANGED <<walk, stages, translation, panicked>>

\* table = table.fold(other); a panic inside map ends the program.
DoFold ==
    /\ ~panicked /\ ~Queried
    /\ nops < MaxOps
    /\ \E other \in ValidTables :
          \E result \in {fold(table, other)} :
              /\ table' = IF result.panicked THEN table ELSE result.table
              /\ panicked' = result.panicked
              /\ last' = [op |-> "fold", self |-> table, other |-> other,
                          result |-> result]
    /\ nops' = nops + 1
    /\ UNCHANGED <<walk, stages, translation>>

\* table.translate(&input)
DoTranslate ==
    /\ ~panicked /\ ~Queried
    /\ \E input \in Inputs :
          last' = [op |-> "translate", self |-> table, input |-> input,
                   result |-> table_translate(table, input)]
    /\ UNCHANGED <<walk, table, nops, stages, translation, panicked>>

\* table.map(rule); a panic inside split ends the program.
DoMap ==
    /\ ~panicked /\ ~Queried
    /\ \E rule \in Rules :
          \E result \in {map(table, rule)} :
              /\ panicked' = result.panicked
              /\ last' = [op |-> "map", self |-> table, rule |-> rule,
                          result |-> result]
    /\ UNCHANGED <<walk, table, nops, stages, translation>>

Next == DoClear \/ DoInsert \/ DoFold \/ DoTranslate \/ DoMap

Spec == Init /\ [][Next]_vars

\* ------------------------------------------------------------------ chains
\* The stage tables parse_input builds, one Translation::new per block.
StageTables == {t \in ValidTables : Len(t) <= MaxStageRules}

\* parse_input has built the first stage.
InitChain ==
    /\ \E t \in StageTables :
          /\ stages = <<t>>
          /\ translation = Table(t)
          /\ last = [op |-> "parse_input", result |-> Table(t)]
    /\ table = <<>>
    /\ nops = 0
    /\ panicked = FALSE
    /\ walk = [pc |-> "idle"]

ChainQueried == last.op \in {"chain_translate", "collapse_table"}

\* translation = translation.and_then(Translation::new(rules))
DoAndThen ==
    /\ ~panicked /\ ~ChainQueried
    /\ Len(stages) < MaxChain
    /\ \E t \in StageTables :
          \E result \in {and_then(translation, Table(t))} :
             /\ stages' = Append(stages, t)
             /\ translation' = result
             /\ last' = [op |-> "and_then", self |-> translation, other |-> Table(t),
                         result |-> result]
    /\ UNCHANGED <<walk, table, nops, panicked>>

\* translation.translate(&input)
DoChainTranslate ==
    /\ ~panicked /\ ~ChainQueried
    /\ \E input \in Inputs :
          last' = [op |-> "chain_translate", input |-> input,
                   result |-> translation_translate(translation, input)]
    /\ UNCHANGED <<walk, table, nops, stages, translation, panicked>>

\* translation.collapse_table(); a panic inside fold ends the program.
DoCollapse ==
    /\ ~panicked /\ ~ChainQueried
    /\ \E result \in {collapse_table(translation)} :
           /\ panicked' = result.panicked
           /\ last' = [op |-> "collapse_table", result |-> result]
    /\ UNCHANGED <<walk, table, nops, stages, translation>>

NextChain == DoAndThen \/ DoChainTranslate \/ DoCollapse

SpecChain == InitChain /\ [][NextChain]_vars

\* ------------------------------------------------------------------ queries
SeedValues == 0..MaxPos
SeedLists == UNION {[1..n -> SeedValues] : n \in 0..(2 * MaxSeedPairs)}

\* parse_input has returned the translation: one table of up to MaxRules
\* rules, or two chained stage tables.
InitQuery ==
    /\ \/ \E t \in ValidTables :
             /\ stages = <<t>>
             /\ translation = Table(t)
       \/ \E a \in StageTables, b \in StageTables :
             /\ stages = <<a, b>>
             /\ translation = and_then(Table(a), Table(b))
    /\ last = [op |-> "parse_input", result |-> translation]
    /\ table = <<>>
    /\ nops = 0
    /\ panicked = FALSE
    /\ walk = [pc |-> "idle"]

\* part_two(seeds, translation)
DoPartTwo ==
    /\ ~panicked
    /\ last.op = "parse_input"
    /\ \E seeds \in SeedLists :
          \E result \in {part_two(seeds, translation)} :
              /\ panicked' = result.panicked
              /\ last' = [op |-> "part_two", seeds |-> seeds, result |-> result]
    /\ UNCHANGED <<walk, table, nops, stages, translation>>

\* part_one(&seeds, &translation)
DoPartOne ==
    /\ ~panicked
    /\ last.op = "parse_input"
    /\ \E seeds \in SeedLists :
          last' = [op |-> "part_one", seeds |-> seeds,
                   result |-> part_one(seeds, translation)]
    /\ UNCHANGED <<walk, table, nops, stages, translation, panicked>>

NextQuery == DoPartTwo \/ DoPartOne

SpecQuery == InitQuery /\ [][NextQuery]_vars

\* ------------------------------------------------------------------ input
\* The rule lines "dest src len" of the input: one digit each, src + len >= 1
\* (the end of the rule is computed without overflow in either profile), and
\* a line that is no rule.
LineDigits == {"0", "1", "2"}
RuleLines ==
    ({<<d, " ", src, " ", len>> : d \in LineDigits, src \in LineDigits, len \in LineDigits}
        \ {<<d, " ", "0", " ", "0">> : d \in LineDigits})
    \cup {<<"x">>}

\* The rule lines of one block.
RuleBlocks == UNION {[1..n -> RuleLines] : n \in 0..MaxBlockLines}

\* The program has read its input lines.
InitInput ==
    /\ last = [op |-> "read_input_lines"]
    /\ table = <<>>
    /\ translation = Table(<<>>)
    /\ stages = <<>>
    /\ nops = 0
    /\ panicked = FALSE
    /\ walk = [pc |-> "idle"]

\* parse_input(&input): the block k of the seven has rule lines.
DoParseInput ==
    /\ ~panicked
    /\ last.op = "read_input_lines"
    /\ \E k \in 1..TableCount, block \in RuleBlocks, overflow_checks \in BOOLEAN :
          \E result \in {parse_input([i \in 1..TableCount |->
                                         IF i = k THEN block ELSE <<>>],
                                     overflow_checks)} :
              /\ panicked' = result.panicked
              /\ IF result.panicked \/ result.tag = "Err"
                 THEN /\ last' = [op |-> "parse_input_failed", result |-> result]
                      /\ UNCHANGED <<walk, translation, stages>>
                 ELSE /\ last' = [op |-> "parse_input", result |-> result.value]
                      /\ translation' = result.value
                      /\ stages' = [i \in 1..TableCount |->
                                       IF i = k
                                       THEN parse_table(block, overflow_checks).value.table
                                       ELSE <<>>]
    /\ UNCHANGED <<walk, table, nops>>

NextInput == DoParseInput \/ DoPartTwo \/ DoPartOne

SpecInput == InitInput /\ [][NextInput]_vars

\* ------------------------------------------------------------------ folds
\* r.fold(other), r the result of a fold: a panic of the first fold unwinds.
fold_then(r, other) ==
    Only({IF a.panicked THEN a ELSE fold(a.table, other) : a \in {r}})

\* self.fold(r), r the result of a fold.
fold_into(self, r) ==
    Only({IF b.panicked THEN b ELSE fold(self, b.table) : b \in {r}})

\* Three tables A, B, C are at hand.
InitFold ==
    /\ \E a \in StageTables, b \in StageTables, c \in StageTables :
          stages = <<a, b, c>>
    /\ last = [op |-> "tables"]
    /\ table = <<>>
    /\ translation = Table(<<>>)
    /\ nops = 0
    /\ panicked = FALSE
    /\ walk = [pc |-> "idle"]

\* left = A.fold(B).fold(C)
DoFoldLeft ==
    /\ ~panicked
    /\ last.op = "tables"
    /\ \E left \in {fold_then(fold(stages[1], stages[2]), stages[3])} :
          /\ last' = [op |-> "fold_left", left |-> left]
          /\ panicked' = left.panicked
    /\ UNCHANGED <<walk, table, nops, stages, translation>>

\* right = A.fold(B.fold(C))
DoFoldRight ==
    /\ ~panicked
    /\ last.op = "fold_left"
    /\ \E right \in {fold_into(stages[1], fold(stages[2], stages[3]))} :
          /\ last' = [op |-> "fold_right", left |-> last.left, right |-> right]
          /\ panicked' = right.panicked
    /\ UNCHANGED <<walk, table, nops, stages, translation>>

NextFold == DoFoldLeft \/ DoFoldRight

SpecFold == InitFold /\ [][NextFold]_vars

\* ------------------------------------------------------------------ rules
\* The characters of the lines: digits, the sign, white space, a letter.
LineChars == {"0", "1", "+", " ", "x"}
Lines == UNION {[1..n -> LineChars] : n \in 0..MaxLineLen}

\* The program has read its input lines and has parsed none.
InitRule ==
    /\ last = [op |-> "read_input_lines"]
    /\ table = <<>>
    /\ translation = Table(<<>>)
    /\ stages = <<>>
    /\ nops = 0
    /\ panicked = FALSE
    /\ walk = [pc |-> "idle"]

\* line.parse::<TranslationRule>(), in either build profile.
DoFromStr ==
    /\ ~panicked
    /\ last.op = "read_input_lines"
    /\ \E s \in Lines, overflow_checks \in BOOLEAN :
          \E result \in {from_str(s, overflow_checks)} :
              /\ last' = [op |-> "from_str", s |-> s,
                          overflow_checks |-> overflow_checks, result |-> result]
              /\ panicked' = result.panicked
    /\ UNCHANGED <<walk, table, nops, stages, translation>>

\* TranslationRule::new(start, end, delta)
DoRuleNew ==
    /\ ~panicked
    /\ last.op = "read_input_lines"
    /\ \E start \in Positions, end \in Positions, delta \in Deltas :
          \E result \in {TranslationRule_new(start, end, delta)} :
              /\ last' = [op |-> "rule_new", start |-> start, end |-> end,
                          delta |-> delta, result |-> result]
              /\ panicked' = result.panicked
    /\ UNCHANGED <<walk, table, nops, stages, translation>>

\* TranslationRule::overlaps_with(a, b)
DoOverlapsWith ==
    /\ ~panicked
    /\ last.op = "read_input_lines"
    /\ \E a \in Ranges, b \in Ranges :
          last' = [op |-> "overlaps_with", a |-> a, b |-> b,
                   result |-> overlaps_with(a, b)]
    /\ UNCHANGED <<walk, table, nops, stages, translation, panicked>>

\* rule.split(length)
DoSplit ==
    /\ ~panicked
    /\ last.op = "read_input_lines"
    /\ \E rule \in Rules, len \in 0..(MaxPos + 2) :
          \E result \in {split(rule, len)} :
              /\ last' = [op |-> "split", rule |-> rule, length |-> len,
                          result |-> result]
              /\ panicked' = result.panicked
    /\ UNCHANGED <<walk, table, nops, stages, translation>>

NextRule == DoFromStr \/ DoRuleNew \/ DoOverlapsWith \/ DoSplit

SpecRule == InitRule /\ [][NextRule]_vars

\* ------------------------------------------------------------------ claims
\* The inclusive source range of the rule contains x.
Contains(rule, x) == x >= rule.start /\ x <= rule.end

InRange(range, x) == x >= range[1] /\ x <= range[2]

\* The stages applied one after the other, from the first one on.
RECURSIVE ApplyStages(_, _, _)
ApplyStages(ts, i, x) ==
    IF i > Len(ts) THEN x ELSE ApplyStages(ts, i + 1, table_translate(ts[i], x))

\* The translation is the left-nested chain of the stages ts.
RECURSIVE LeftNested(_, _)
LeftNested(tr, ts) ==
    IF Len(ts) = 1
    THEN tr.tag = "Table" /\ tr.table = ts[1]
    ELSE /\ tr.tag = "Chain"
         /\ tr.b.tag = "Table" /\ tr.b.table = ts[Len(ts)]
         /\ LeftNested(tr.a, SubSeq(ts, 1, Len(ts) - 1))

\* C1: collapse_table returns a table (no panic) that translates every input
\* as the chain does, for chains of every depth built from valid tables.
C1_CollapseEqualsChain ==
    last.op = "collapse_table" =>
        /\ ~last.result.panicked
        /\ \A x \in Inputs :
              table_translate(last.result.table, x) = translation_translate(translation, x)

\* C2: for valid tables A and B, A.fold(B) translates every input x to
\* B.translate(A.translate(x)), inputs outside the rules of A and next to
\* their boundaries included (stated for the folds that return).
C2_FoldIsComposition ==
    (/\ last.op = "fold"
     /\ TableInvariant(last.self) /\ TableInvariant(last.other)
     /\ ~last.result.panicked) =>
        \A x \in Inputs :
            table_translate(last.result.table, x) =
                table_translate(last.other, table_translate(last.self, x))

\* C3: translate returns x + delta of the first rule in start order whose
\* range contains x, x itself when no rule contains x; in a valid table it is
\* x + r.delta for every rule r that contains x.
C3_TranslateFirstMatch ==
    last.op = "translate" =>
        LET t == last.self
            x == last.input
            y == last.result
        IN  /\ \A i \in 1..Len(t) :
                  (Contains(t[i], x) /\ \A j \in 1..(i - 1) : ~Contains(t[j], x))
                      => y = x + t[i].delta
            /\ (\A i \in 1..Len(t) : ~Contains(t[i], x)) => y = x
            /\ TableInvariant(t) =>
                  \A i \in 1..Len(t) : Contains(t[i], x) => y = x + t[i].delta

\* C3 witness: the second rule of a valid table translated the input by a
\* delta that is not 0, at the last value of its range.
C3_Witness ==
    /\ last.op = "translate"
    /\ TableInvariant(last.self) /\ Len(last.self) = 2
    /\ last.input = last.self[2].end
    /\ last.self[2].start < last.self[2].end
    /\ last.self[2].delta # 0
    /\ last.result = last.input + last.self[2].delta

\* C4: the chain built with and_then from the stages T1..Tn is left-nested and
\* translates x as Tn.translate(...T2.translate(T1.translate(x))...).
C4_ChainIsSequential ==
    /\ LeftNested(translation, stages)
    /\ last.op = "chain_translate" => last.result = ApplyStages(stages, 1, last.input)

\* C4 witness: a chain of three stages translated an input on which the order
\* of the stages matters.
C4_Witness ==
    /\ last.op = "chain_translate"
    /\ Len(stages) = 3
    /\ last.result = ApplyStages(stages, 1, last.input)
    /\ last.result # ApplyStages(<<stages[3], stages[2], stages[1]>>, 1, last.input)
    /\ last.result # ApplyStages(<<stages[2], stages[1], stages[3]>>, 1, last.input)

\* The inclusive ranges of a range list are pairwise disjoint.
DisjointRanges(rs) ==
    \A i, j \in 1..Len(rs) : i < j => ~Intersects(rs[i], rs[j])

\* Every destination reachable from the ranges through the table.
Reachable(t, rs) ==
    {table_translate(t, x) : x \in UNION {rs[i][1]..rs[i][2] : i \in 1..Len(rs)}}

\* C5: part_two returns the smallest value of table.translate(x) over every x
\* of every input range, the x no rule covers included (stated for the calls
\* that return a location, over ranges of more than one value).
C5_PartTwoIsMinimum ==
    (/\ last.op = "part_two"
     /\ ~last.result.panicked
     /\ last.result.tag = "Ok"
     /\ seed_ranges_of(last.seeds) # <<>>
     /\ \A i \in 1..Len(seed_ranges_of(last.seeds)) :
           seed_ranges_of(last.seeds)[i][1] < seed_ranges_of(last.seeds)[i][2]
     /\ DisjointRanges(seed_ranges_of(last.seeds))) =>
        last.result =
            Ok(Min(Reachable(collapse_table(translation).table,
                             seed_ranges_of(last.seeds))))

\* C6: clear, insert and fold keep the table invariant: a step from a table
\* sorted by start with pairwise disjoint source ranges ends in such a table.
C6_TableInvariantKept == [][TableInvariant(table) => TableInvariant(table')]_vars

\* C6 witness: a valid table went through two operations, the second a fold
\* that returned a table of three rules.
C6_Witness ==
    /\ nops = 2
    /\ last.op = "fold" /\ ~panicked
    /\ TableInvariant(last.self) /\ last.self # <<>> /\ last.other # <<>>
    /\ Len(table) = 3
    /\ TableInvariant(table)

\* C7: TranslationTable::new normalizes every rule list, unsorted and
\* overlapping ones included: the table is sorted and non-overlapping.
C7_NewNormalizes == last.op = "new" => TableInvariant(last.result)

\* C8: after clear((lo, hi)) no rule of the result intersects [lo, hi];
\* clearing the source range of the only rule of a table gives the empty table.
C8_ClearedRangeIsFree ==
    last.op = "clear" =>
        /\ \A i \in 1..Len(last.result) :
              ~Intersects(source_range(last.result[i]), last.input_range)
        /\ (Len(last.self) = 1 /\ last.input_range = source_range(last.self[1]))
              => last.result = <<>>

\* C8 witness: a rule that reaches over both ends of the range was cleared,
\* two fragments are left.
C8_Witness ==
    /\ last.op = "clear"
    /\ Len(last.self) = 1
    /\ last.self[1].start < last.input_range[1]
    /\ last.input_range[2] < last.self[1].end
    /\ Len(last.result) = 2

\* C9: clear((lo, hi)) of a valid table changes translate(x) for no x outside
\* [lo, hi], also when the range touches only the first or the last value of
\* a rule.
C9_ClearKeepsOutside ==
    (last.op = "clear" /\ TableInvariant(last.self)) =>
        \A x \in Inputs :
            ~InRange(last.input_range, x) =>
                table_translate(last.result, x) = table_translate(last.self, x)

\* C10: clear((lo, hi)) keeps every rule whose source range does not
\* intersect [lo, hi] as it is, and returns the table itself when the range
\* intersects no rule.
C10_ClearKeepsDisjointRules ==
    last.op = "clear" =>
        /\ \A i \in 1..Len(last.self) :
              ~Intersects(source_range(last.self[i]), last.input_range) =>
                  \E j \in 1..Len(last.result) : last.result[j] = last.self[i]
        /\ (\A i \in 1..Len(last.self) :
               ~Intersects(source_range(last.self[i]), last.input_range))
              => last.result = last.self

\* C10 witness: the range lies in the gap between the two rules of a valid
\* table, and the table is returned as it was.
C10_Witness ==
    /\ last.op = "clear"
    /\ TableInvariant(last.self) /\ Len(last.self) = 2
    /\ last.self[1].end < last.input_range[1]
    /\ last.input_range[2] < last.self[2].start
    /\ last.result = last.self

\* The rules of a table, as a set.
SetOf(t) == {t[i] : i \in 1..Len(t)}

\* C11: insert(rule) into a valid table returns a table sorted by start that
\* holds the rule itself, in which no other rule intersects the rule's source
\* range, and which translates every x of [rule.start, rule.end] to
\* x + rule.delta.
C11_InsertPostcondition ==
    (last.op = "insert" /\ TableInvariant(last.self)) =>
        LET r == last.rule
            t == last.result
        IN  /\ \E j \in 1..Len(t) :
                  /\ t[j] = r
                  /\ \A k \in 1..Len(t) :
                        k # j => ~Intersects(source_range(t[k]), source_range(r))
            /\ \A i, j \in 1..Len(t) : i < j => t[i].start <= t[j].start
            /\ \A x \in r.start..r.end : table_translate(t, x) = x + r.delta

\* C11 witness: the rule went into the middle of the only rule of a valid
\* table, which has another delta; a fragment is left on either side.
C11_Witness ==
    /\ last.op = "insert"
    /\ Len(last.self) = 1
    /\ last.self[1].start < last.rule.start
    /\ last.rule.end < last.self[1].end
    /\ last.self[1].delta # last.rule.delta
    /\ Len(last.result) = 3
    /\ last.result[2] = last.rule

\* C12: clear(r.source_range()) followed by insert(r), for a rule r of a valid
\* table, gives a table with the rules of the original table, as a set.
C12_ClearInsertRoundTrip ==
    [][(/\ last.op = "clear"
        /\ last'.op = "insert"
        /\ TableInvariant(last.self)
        /\ last'.rule \in SetOf(last.self)
        /\ last.input_range = source_range(last'.rule))
       => SetOf(table') = SetOf(last.self)]_vars

\* C12 witness: the rule inserted second was cleared from a valid table of two
\* rules first, and the table has its two rules again.
C12_Witness ==
    /\ last.op = "insert"
    /\ nops = 2
    /\ TableInvariant(table) /\ Len(table) = 2
    /\ last.rule \in SetOf(table)
    /\ last.rule \notin SetOf(last.self)
    /\ last.self = clear(table, source_range(last.rule))
    /\ Len(last.self) = 1

\* The delta of the table rule whose source range contains y, 0 without one.
DeltaAt(t, y) ==
    IF \E i \in 1..Len(t) : Contains(t[i], y)
    THEN t[CHOOSE i \in 1..Len(t) : Contains(t[i], y)].delta
    ELSE 0

\* map(r) returned rules of which one contains x, each of them with the delta
\* of r plus the delta of the table at x + r.delta.
MapsThrough(t, r, rules) ==
    \A x \in r.start..r.end :
        /\ \E k \in 1..Len(rules) : Contains(rules[k], x)
        /\ \A k \in 1..Len(rules) :
              Contains(rules[k], x) => rules[k].delta = r.delta + DeltaAt(t, x + r.delta)

\* C13: map(r) on a valid table returns rules such that every x of
\* [r.start, r.end] lies in a rule with delta r.delta + d, d the delta of the
\* table rule that contains x + r.delta and 0 when there is none; the table
\* [(10,19,+10),(21,29,+20),(30,39,-10)] maps (0,9,+5) to [(0,4,+5),(5,9,+15)].
C13_MapSumsDeltas ==
    /\ (last.op = "map" /\ TableInvariant(last.self)) =>
          /\ ~last.result.panicked
          /\ MapsThrough(last.self, last.rule, last.result.rules)
    /\ last.op = "new" =>
          map(<<Rule(10, 19, 10), Rule(21, 29, 20), Rule(30, 39, -10)>>, Rule(0, 9, 5))
              = [panicked |-> FALSE, rules |-> <<Rule(0, 4, 5), Rule(5, 9, 15)>>]

\* C13, for the calls of map that return.
C13_MapSumsDeltasOnReturn ==
    (last.op = "map" /\ TableInvariant(last.self) /\ ~last.result.panicked) =>
        MapsThrough(last.self, last.rule, last.result.rules)

\* C14: for valid tables A, B and C, A.fold(B).fold(C) and A.fold(B.fold(C))
\* translate every input to the same value.
C14_FoldIsAssociative ==
    last.op = "fold_right" =>
        /\ ~last.right.panicked
        /\ \A x \in Inputs :
              table_translate(last.left.table, x) = table_translate(last.right.table, x)

\* The decimal digits of n, without leading zeros.
RECURSIVE Decimal(_)
Decimal(n) ==
    IF n < 10
    THEN <<CHOOSE c \in DOMAIN to_digit : to_digit[c] = n>>
    ELSE Append(Decimal(n \div 10), CHOOSE c \in DOMAIN to_digit : to_digit[c] = n % 10)

Numbers == 0..MaxNumber

IsNumber(token) == \E n \in Numbers : Decimal(n) = token
NumberOf(token) == CHOOSE n \in Numbers : Decimal(n) = token

\* The token is an integer literal: decimal digits, after an optional "+".
IsInteger(token) ==
    LET digits == IF token # <<>> /\ token[1] = "+" THEN Tail(token) ELSE token
    IN  /\ digits # <<>>
        /\ \A i \in 1..Len(digits) : digits[i] \in DOMAIN to_digit

\* The line "dest src len" is parsed to the rule the claim C15 names.
ParsedAsClaimed(dest, src, len, result) ==
    /\ result = Ok(Rule(src, src + len - 1, dest - src))
    /\ \A x \in src..(src + len - 1) :
          rule_translate(result.value, x) = Some(dest + (x - src))

\* C15: a line of three numbers "dest src len" separated by white space is
\* parsed to the rule {start: src, end: src + len - 1, delta: dest - src},
\* which translates every x of [src, src + len - 1] to dest + (x - src).
C15_ParseRule ==
    last.op = "from_str" =>
        LET tokens == split_ascii_whitespace(last.s)
        IN  (Len(tokens) = 3 /\ \A k \in 1..3 : IsNumber(tokens[k])) =>
                ParsedAsClaimed(NumberOf(tokens[1]), NumberOf(tokens[2]),
                                NumberOf(tokens[3]), last.result)

\* C15, for the lines with src + len >= 1.
C15_ParseRuleFromOne ==
    last.op = "from_str" =>
        LET tokens == split_ascii_whitespace(last.s)
        IN  (/\ Len(tokens) = 3 /\ \A k \in 1..3 : IsNumber(tokens[k])
             /\ NumberOf(tokens[2]) + NumberOf(tokens[3]) >= 1) =>
                ParsedAsClaimed(NumberOf(tokens[1]), NumberOf(tokens[2]),
                                NumberOf(tokens[3]), last.result)

\* The line has not three tokens, or one of its three tokens is no integer.
Malformed(s) ==
    LET tokens == split_ascii_whitespace(s)
    IN  Len(tokens) # 3 \/ \E k \in 1..3 : ~IsInteger(tokens[k])

\* C16: every malformed rule line (a wrong number of tokens, or three tokens
\* of which one is not an integer) gives Err(InputParsingFailed) with a
\* message that names the line, and no panic.
C16_MalformedLineIsNamed ==
    (last.op = "from_str" /\ Malformed(last.s)) =>
        /\ ~last.result.panicked
        /\ last.result.tag = "Err"
        /\ last.result.error.kind = "InputParsingFailed"
        /\ last.result.error.message.arg = last.s

\* No rule of the table has a source range that shares a value with one of
\* the input ranges of part_two.
NothingIntersects(t, rs) ==
    \A i \in 1..Len(t), k \in 1..Len(rs) : ~Intersects(source_range(t[i]), rs[k])

\* C17: when no rule of the collapsed table intersects an input range (the
\* empty table and the empty list of ranges included), part_two returns
\* Err(NoSolutionFound) and does not panic.
C17_NoSolutionFound ==
    (/\ last.op = "part_two"
     /\ ~collapse_table(translation).panicked
     /\ NothingIntersects(collapse_table(translation).table,
                          seed_ranges_of(last.seeds))) =>
        /\ ~panicked
        /\ last.result = Err("NoSolutionFound")

\* C17 witness: a table with a rule and a seed range that lie apart, and
\* part_two returned NoSolutionFound.
C17_Witness ==
    /\ last.op = "part_two"
    /\ translation.tag = "Table" /\ Len(translation.table) = 1
    /\ Len(seed_ranges_of(last.seeds)) = 1
    /\ seed_ranges_of(last.seeds)[1][2] < translation.table[1].start
    /\ last.result = Err("NoSolutionFound")

\* C18: every rule that comes into being has start <= end: the rule parsed
\* from a line, whatever its length field, 0 included, and the rule that
\* TranslationRule::new returns.
C18_RuleStartBeforeEnd ==
    /\ (last.op = "from_str" /\ ~last.result.panicked /\ last.result.tag = "Ok")
          => last.result.value.start <= last.result.value.end
    /\ (last.op = "rule_new" /\ ~last.result.panicked)
          => last.result.rule.start <= last.result.rule.end

\* C19: TranslationRule::new(start, end, delta) panics exactly when
\* start > end, returns the rule {start, end, delta} otherwise, and its
\* failure is no SolutionError value.
C19_NewPanicsOnInvertedRange ==
    last.op = "rule_new" =>
        /\ last.result.panicked <=> last.start > last.end
        /\ ~last.result.panicked =>
              last.result.rule = Rule(last.start, last.end, last.delta)
        /\ last.result.panicked => last.result = Panicked /\ panicked

\* C19 witness: new was called with start > end and the program has panicked.
C19_Witness ==
    /\ last.op = "rule_new"
    /\ last.start > last.end
    /\ last.result.panicked
    /\ panicked

\* C20: overlaps_with(a, b) is symmetric and, for a0 <= a1 and b0 <= b1, true
\* exactly when the inclusive intervals share an integer: (1,5) and (5,9)
\* overlap, (1,4) and (5,8) do not.
C20_OverlapIsIntersection ==
    /\ last.op = "overlaps_with" =>
          /\ last.result = overlaps_with(last.b, last.a)
          /\ last.result = Intersects(last.a, last.b)
    /\ last.op = "read_input_lines" =>
          /\ overlaps_with(<<1, 5>>, <<5, 9>>) /\ overlaps_with(<<5, 9>>, <<1, 5>>)
          /\ ~overlaps_with(<<1, 4>>, <<5, 8>>) /\ ~overlaps_with(<<5, 8>>, <<1, 4>>)

\* C20 witness: the first interval ends on the value the second starts with,
\* and they overlap.
C20_Witness ==
    /\ last.op = "overlaps_with"
    /\ last.a[1] < last.a[2]
    /\ last.a[2] = last.b[1]
    /\ last.b[1] < last.b[2]
    /\ last.result

\* The rules of the table in increasing order of destination start.
ByDestination(t) ==
    SortedBy(t, [i \in 1..Len(t) |-> destination_range(t[i])[1]])

\* The rule shares a value with one of the ranges.
Matches(rule, rs) == \E k \in 1..Len(rs) : Intersects(source_range(rule), rs[k])

\* rule.translate(max(rule.start, range.start)), range the first of the
\* ranges that intersects the rule.
Candidate(rule, rs) ==
    LET k == Min({j \in 1..Len(rs) : Intersects(source_range(rule), rs[j])})
    IN  rule.start + rule.delta + (max(rule.start, rs[k][1]) - rule.start)

\* C21: the answer of part_two is rule.translate(max(rule.start,
\* range.start)) for the first rule, in increasing order of destination
\* start, whose source range intersects an input range; no later rule changes
\* it.
C21_FirstMatchDecides ==
    (last.op = "part_two" /\ ~collapse_table(translation).panicked) =>
        LET rules == ByDestination(collapse_table(translation).table)
            rs == seed_ranges_of(last.seeds)
            matching == {i \in 1..Len(rules) : Matches(rules[i], rs)}
        IN  matching # {} => last.result = Ok(Candidate(rules[Min(matching)], rs))

\* C24: part_two turns each pair (start, length) of the seed list into the
\* inclusive range (start, start + length - 1) of the length seeds from start
\* on (79 14 55 13 give (79,92) and (55,67)); start + length is not in it
\* (stated for the lists of at least one pair, with lengths of 1 or more).
C24_SeedRangeEndsBeforeLength ==
    (/\ last.op = "part_two"
     /\ Len(last.seeds) >= 2
     /\ \A i \in 1..(Len(last.seeds) \div 2) : last.seeds[2 * i] >= 1) =>
        /\ \A i \in 1..(Len(last.seeds) \div 2) :
              \E k \in 1..Len(seed_ranges_of(last.seeds)) :
                  seed_ranges_of(last.seeds)[k] =
                      <<last.seeds[2 * i - 1],
                        last.seeds[2 * i - 1] + last.seeds[2 * i] - 1>>
        /\ SetOf(seed_ranges_of(<<79, 14, 55, 13>>)) = {<<79, 92>>, <<55, 67>>}

\* C25: whenever collapse_table has returned a table, part_two does not
\* panic: the unwrap of rule.translate succeeds and the fold does not end in
\* Done(None).
C25_ScanNeverPanics ==
    (last.op = "part_two" /\ ~collapse_table(translation).panicked)
        => ~last.result.panicked

\* C26: part_one returns the smallest chain.translate(s) over the seeds s of
\* the list, and Err(NoSolutionFound) exactly when the list is empty.
C26_PartOneIsMinimum ==
    last.op = "part_one" =>
        /\ last.result = Err("NoSolutionFound") <=> last.seeds = <<>>
        /\ last.seeds # <<>> =>
              /\ last.result.tag = "Ok"
              /\ \E i \in 1..Len(last.seeds) :
                    last.result.value = ApplyStages(stages, 1, last.seeds[i])
              /\ \A i \in 1..Len(last.seeds) :
                    last.result.value <= ApplyStages(stages, 1, last.seeds[i])

\* C26 witness: part_one went through a chain of two tables and returned the
\* location of a seed that is neither the first nor the smallest of the list.
C26_Witness ==
    /\ last.op = "part_one"
    /\ Len(stages) = 2
    /\ Len(last.seeds) >= 3
    /\ last.result.tag = "Ok"
    /\ last.result.value # ApplyStages(stages, 1, last.seeds[1])
    /\ \E i \in 1..Len(last.seeds) :
          /\ last.result.value = ApplyStages(stages, 1, last.seeds[i])
          /\ \E j \in 1..Len(last.seeds) : last.seeds[j] < last.seeds[i]

\* The rules are sorted by start, pairwise disjoint, each with start <= end,
\* and their source ranges together are exactly the source range of r; they
\* are r alone when the destination range of r meets no rule of the table.
PartitionOf(t, r, rules) ==
    /\ TableInvariant(rules)
    /\ UNION {rules[k].start..rules[k].end : k \in 1..Len(rules)} = r.start..r.end
    /\ (\A i \in 1..Len(t) : ~Intersects(source_range(t[i]), destination_range(r)))
          => rules = <<r>>

\* C22: for a valid table and a rule r, map(r) returns rules sorted by start,
\* pairwise disjoint, each with start <= end, whose source ranges together
\* are exactly [r.start, r.end]; it returns r alone when the destination
\* range of r intersects no rule of the table.
C22_MapPartitionsRule ==
    (last.op = "map" /\ TableInvariant(last.self)) =>
        /\ ~last.result.panicked
        /\ PartitionOf(last.self, last.rule, last.result.rules)

\* C22, for the calls of map that return.
C22_MapPartitionsRuleOnReturn ==
    (last.op = "map" /\ TableInvariant(last.self) /\ ~last.result.panicked) =>
        PartitionOf(last.self, last.rule, last.result.rules)

\* C23: map(r) on a valid table returns without a panic for every rule r with
\* start <= end and a destination range of non-negative values, also when a
\* table rule starts at the last destination value of r, and when r has
\* length 2.
C23_MapIsTotal ==
    (/\ last.op = "map"
     /\ TableInvariant(last.self)
     /\ last.rule.start <= last.rule.end
     /\ last.rule.start + last.rule.delta >= 0) =>
        ~last.result.panicked

\* C30: split(length) returns for every length with 0 < length <
\* rule.length(), the first rule over [start, start + length - 1], the second
\* over [start + length, end], both with the delta of the rule; it panics only
\* when length = 0 or length >= rule.length().
C30_SplitWithinLength ==
    last.op = "split" =>
        /\ last.result.panicked <=>
              (last.length = 0 \/ last.length >= length(last.rule))
        /\ ~last.result.panicked =>
              /\ last.result.lower =
                    Rule(last.rule.start, last.rule.start + last.length - 1,
                         last.rule.delta)
              /\ last.result.upper =
                    Rule(last.rule.start + last.length, last.rule.end,
                         last.rule.delta)

\* ================================================================== Day 8
\* src/day_08/src/main.rs.  A Node is the sequence of the characters of its
\* name; an Instruction is "L" or "R"; a Network is the function from the
\* defined nodes to their (left, right) pair (the HashMap of the source).

\* The instruction line has up to MaxInstructions instructions.
MaxInstructions == 2
\* The fold over the cycled instructions is followed for MaxSteps steps.
MaxSteps == 6

AAA == <<"A", "A", "A">>
ZZZ == <<"Z", "Z", "Z">>
BBA == <<"B", "B", "A">>

\* Instruction::choose
choose(instruction, possibilities) ==
    IF instruction = "L" THEN possibilities[1] ELSE possibilities[2]

\* Node::is_start, is_end, is_ghost_start, is_ghost_end, prefix
is_start(node) == node = AAA
is_end(node) == node = ZZZ
is_ghost_start(node) == Len(node) > 0 /\ node[Len(node)] = "A"
is_ghost_end(node) == Len(node) > 0 /\ node[Len(node)] = "Z"
prefix(node) == SubSeq(node, 1, Len(node) - 1)

\* Network::start: the key that is the start node, if there is one.
start(network) ==
    IF \E n \in DOMAIN network : is_start(n)
    THEN Some(CHOOSE n \in DOMAIN network : is_start(n))
    ELSE None

\* Network::ghost_start: the keys that are ghost start nodes.
ghost_start(network) == {n \in DOMAIN network : is_ghost_start(n)}

\* Network::lookup
lookup(network, node, instruction) ==
    IF node \in DOMAIN network
    THEN Some(choose(instruction, network[node]))
    ELSE None

Continue(state) == [fold |-> "Continue", state |-> state]
Done(state) == [fold |-> "Done", state |-> state]

NoSolutionFound == Err("NoSolutionFound")

\* walk_step with the step onto the end node counted twice.
walk_step_counts_end(network, acc, instruction) ==
    IF acc.position.some
    THEN IF is_end(acc.position.value)
         THEN Done([length |-> acc.length + 1, position |-> acc.position])
         ELSE Continue([length |-> acc.length + 1,
                        position |-> lookup(network, acc.position.value, instruction)])
    ELSE Done([length |-> 0, position |-> None])

\* part_one: the closure given to fold_while, on (length, position).
walk_step(network, acc, instruction) ==
    IF acc.position.some
    THEN IF is_end(acc.position.value)
         THEN Done(acc)
         ELSE Continue([length |-> acc.length + 1,
                        position |-> lookup(network, acc.position.value, instruction)])
    ELSE Done([length |-> 0, position |-> None])

\* part_one: the match on the result of fold_while.
walk_result(result) ==
    IF result.fold = "Continue" \/ ~result.state.position.some
    THEN NoSolutionFound
    ELSE Ok(result.state.length)

\* part_two: the initial state, one entry per ghost start, keyed by prefix.
ghost_state(network) ==
    [p \in {prefix(n) : n \in ghost_start(network)} |->
        [position |-> CHOOSE n \in ghost_start(network) : prefix(n) = p,
         length |-> 0,
         cycle |-> None]]

\* part_two: the cycle of one ghost after this step.
next_cycle(ghost) ==
    IF is_ghost_end(ghost.position)
    THEN IF ghost.cycle.some /\ ghost.cycle.value # ghost.length
         THEN NoSolutionFound
         ELSE IF ghost.cycle.some
              THEN Ok(ghost.cycle)
              ELSE Ok(Some(ghost.length))
    ELSE Ok(ghost.cycle)

\* part_two: the step of one ghost, Ok(entry) or Err.
ghost_step(network, ghost, instruction) ==
    Only({IF cycle.tag = "Err"
          THEN cycle
          ELSE Only({IF next_position.some
                     THEN Ok([position |-> next_position.value,
                              length |-> ghost.length + 1,
                              cycle |-> cycle.value])
                     ELSE NoSolutionFound
                     : next_position \in {lookup(network, ghost.position, instruction)}})
          : cycle \in {next_cycle(ghost)}})

\* part_two: the closure given to fold_while, on Ok(state) or Err(e).
ghosts_step(network, maybe_state, instruction) ==
    IF maybe_state.tag = "Err"
    THEN Done(maybe_state)
    ELSE IF \A p \in DOMAIN maybe_state.value : maybe_state.value[p].cycle.some
         THEN Done(maybe_state)
         ELSE Only({IF \E p \in DOMAIN next : next[p].tag = "Err"
                    THEN Continue(NoSolutionFound)
                    ELSE Continue(Ok([p \in DOMAIN next |-> next[p].value]))
                    : next \in {[p \in DOMAIN maybe_state.value |->
                                    ghost_step(network, maybe_state.value[p],
                                               instruction)]}})

\* num::integer::gcd and lcm.
RECURSIVE gcd(_, _)
gcd(a, b) == IF b = 0 THEN a ELSE gcd(b, a % b)
lcm(a, b) == IF a = 0 /\ b = 0 THEN 0 ELSE (a * b) \div gcd(a, b)

\* The fold of lcm over the set of cycle lengths, from 1.
RECURSIVE lcm_fold(_, _)
lcm_fold(a, cycle_lengths) ==
    IF cycle_lengths = {}
    THEN a
    ELSE Only({lcm_fold(lcm(a, b), cycle_lengths \ {b})
               : b \in {CHOOSE c \in cycle_lengths : TRUE}})

\* part_two: the match on the result of fold_while; the last arm is
\* unreachable!("Iteration never stops"), a panic.
ghosts_result(result) ==
    IF result.fold = "Done" /\ result.state.tag = "Ok"
    THEN Only({IF \E c \in cycle_lengths : ~c.some
               THEN NoSolutionFound
               ELSE Ok(lcm_fold(1, {c.value : c \in cycle_lengths}))
               : cycle_lengths \in {{result.state.value[p].cycle
                                       : p \in DOMAIN result.state.value}}})
    ELSE IF result.fold = "Continue" /\ result.state.tag = "Err"
         THEN result.state
         ELSE Panicked

\* The networks of the input: definitions for some of three nodes.
NodeNames == {AAA, BBA, ZZZ}
Networks == UNION {[D -> NodeNames \X NodeNames] : D \in SUBSET NodeNames}
\* The instruction lines parse_input accepts, the empty line among them.
InstructionLists == UNION {[1..n -> {"L", "R"}] : n \in 0..MaxInstructions}

\* parse_input has returned the instructions and the network.
InitWalk ==
    /\ \E instructions \in InstructionLists, network \in Networks :
          walk = [pc |-> "parsed", instructions |-> instructions, network |-> network]
    /\ last = [op |-> "parse_input"]
    /\ table = <<>>
    /\ translation = Table(<<>>)
    /\ stages = <<>>
    /\ nops = 0
    /\ panicked = FALSE

\* part_one(&instructions, &network) is called: the fold is at its start.
DoPartOneStart ==
    /\ ~panicked
    /\ walk.pc = "parsed"
    /\ walk' = [pc |-> "part_one", instructions |-> walk.instructions,
                network |-> walk.network, next |-> 1,
                acc |-> [length |-> 0, position |-> start(walk.network)]]
    /\ UNCHANGED <<table, nops, stages, translation, last, panicked>>

\* One step of part_one's fold_while over instructions.iter().cycle(), and
\* the return of part_one when the fold ends with it.  The cycle of an empty
\* list is at its end at once, and fold_while then returns Continue(acc).
DoPartOneStep ==
    /\ ~panicked
    /\ walk.pc = "part_one"
    /\ walk.acc.length < MaxSteps
    /\ IF walk.instructions = <<>>
       THEN walk' = [pc |-> "part_one_returned", instructions |-> walk.instructions,
                     network |-> walk.network,
                     result |-> walk_result(Continue(walk.acc))]
       ELSE \E folded \in {walk_step(walk.network, walk.acc,
                                     walk.instructions[walk.next])} :
               IF folded.fold = "Done"
               THEN walk' = [pc |-> "part_one_returned",
                             instructions |-> walk.instructions,
                             network |-> walk.network,
                             result |-> walk_result(folded)]
               ELSE walk' = [walk EXCEPT !.acc = folded.state,
                                         !.next = (walk.next % Len(walk.instructions)) + 1]
    /\ UNCHANGED <<table, nops, stages, translation, last, panicked>>

\* part_two(&instructions, &network) is called, by main after part_one has
\* returned or on its own: the fold is at its start.
DoPartTwoStart ==
    /\ ~panicked
    /\ walk.pc \in {"parsed", "part_one_returned"}
    /\ walk' = [pc |-> "part_two", instructions |-> walk.instructions,
                network |-> walk.network, next |-> 1, steps |-> 0,
                acc |-> Ok(ghost_state(walk.network))]
    /\ UNCHANGED <<table, nops, stages, translation, last, panicked>>

\* One step of part_two's fold_while over instructions.iter().cycle(), and
\* the return of part_two (or its panic) when the fold ends with it.
DoPartTwoStep ==
    /\ ~panicked
    /\ walk.pc = "part_two"
    /\ walk.steps <= MaxSteps
    /\ IF walk.instructions = <<>>
       THEN \E result \in {ghosts_result(Continue(walk.acc))} :
               /\ walk' = [pc |-> "part_two_returned",
                           instructions |-> walk.instructions,
                           network |-> walk.network, result |-> result]
               /\ panicked' = result.panicked
       ELSE \E folded \in {ghosts_step(walk.network, walk.acc,
                                       walk.instructions[walk.next])} :
               IF folded.fold = "Done"
               THEN \E result \in {ghosts_result(folded)} :
                       /\ walk' = [pc |-> "part_two_returned",
                                   instructions |-> walk.instructions,
                                   network |-> walk.network, result |-> result]
                       /\ panicked' = result.panicked
               ELSE /\ walk' = [walk EXCEPT !.acc = folded.state,
                                            !.steps = walk.steps + 1,
                                            !.next = (walk.next % Len(walk.instructions)) + 1]
                    /\ UNCHANGED panicked
    /\ UNCHANGED <<table, nops, stages, translation, last>>

NextWalk == DoPartOneStart \/ DoPartOneStep \/ DoPartTwoStart \/ DoPartTwoStep

SpecWalk == InitWalk /\ [][NextWalk]_vars

\* ------------------------------------------------------------ Day 8 claims
\* The node a walk from the node "from" stands on after k steps, following
\* the instructions cyclically; None once a node without definition is left.
RECURSIVE NodeAfter(_, _, _, _)
NodeAfter(network, instructions, from, k) ==
    IF k = 0
    THEN Some(from)
    ELSE Only({IF p.some /\ p.value \in DOMAIN network
               THEN Some(network[p.value][IF instructions[((k - 1) % Len(instructions)) + 1] = "L"
                                           THEN 1 ELSE 2])
               ELSE None
               : p \in {NodeAfter(network, instructions, from, k - 1)}})

\* The walk from "from" stands on a node that satisfies End after k steps.
StandsOnZ(network, instructions, from, k) ==
    Only({p.some /\ p.value[Len(p.value)] = "Z"
          : p \in {NodeAfter(network, instructions, from, k)}})

\* The number of steps after which the walk from "from" first stands on a
\* node ending in 'Z'.
FirstZ(network, instructions, from) ==
    Min({k \in 0..MaxSteps : StandsOnZ(network, instructions, from, k)})

\* The least common multiple of a set of positive numbers.
LeastCommonMultiple(S) ==
    Min({m \in 1..(MaxSteps * MaxSteps) : \A n \in S : m % n = 0})

\* C29: part_one returns Ok(k), k the smallest number of steps after which
\* the walk from AAA (instructions followed cyclically) stands on ZZZ, and
\* Err(NoSolutionFound) when AAA is not defined, when the walk reaches a node
\* other than ZZZ without definition, or when the instruction list is empty.
C29_PartOneCountsStepsToZZZ ==
    walk.pc = "part_one_returned" =>
        IF walk.instructions = <<>> \/ AAA \notin DOMAIN walk.network
        THEN walk.result = NoSolutionFound
        ELSE \E k \in 0..MaxSteps :
                /\ \A j \in 0..(k - 1) :
                      \E p \in {NodeAfter(walk.network, walk.instructions, AAA, j)} :
                          /\ p.some
                          /\ p.value # ZZZ
                          /\ p.value \in DOMAIN walk.network
                /\ \E p \in {NodeAfter(walk.network, walk.instructions, AAA, k)} :
                      /\ p.some
                      /\ \/ p.value = ZZZ /\ walk.result = Ok(k)
                         \/ /\ p.value # ZZZ
                            /\ p.value \notin DOMAIN walk.network
                            /\ walk.result = NoSolutionFound

\* C29: part_one has returned a step count larger than the instruction list
\* is long (the instructions were followed a second time).
C29_Witness ==
    /\ walk.pc = "part_one_returned"
    /\ Len(walk.instructions) = 2
    /\ walk.result.tag = "Ok"
    /\ walk.result.value > Len(walk.instructions)

\* C29: part_one has returned the error of a walk that left a node without
\* definition.
C29_WitnessUndefined ==
    /\ walk.pc = "part_one_returned"
    /\ walk.instructions # <<>>
    /\ AAA \in DOMAIN walk.network
    /\ walk.result = NoSolutionFound

\* C27: when the instruction list is not empty and every ghost eventually
\* stands on a node ending in 'Z', part_two returns Ok(L), L the least common
\* multiple of the ghosts' numbers of steps to their first such node.
C27_GhostsMeetAtLcm ==
    (/\ walk.pc = "part_two_returned"
     /\ walk.instructions # <<>>
     /\ \A g \in ghost_start(walk.network) :
           \E k \in 0..MaxSteps : StandsOnZ(walk.network, walk.instructions, g, k))
    => walk.result =
          Ok(LeastCommonMultiple({FirstZ(walk.network, walk.instructions, g)
                                    : g \in ghost_start(walk.network)}))

\* C28: part_two does not panic in its unreachable!("Iteration never stops")
\* arm: it returns Ok or Err.
C28_UnreachableIsNotReached ==
    walk.pc = "part_two_returned" => ~walk.result.panicked

====
